---------------------------- MODULE Spec2Model ----------------------------
(***************************************************************************)
(* A model of the NES emulator's audio path: the APU orchestrator          *)
(* (nes_core/src/apu.rs), its oscillators, the shared Sample Buffer and    *)
(* the SDL frontend's session loading and audio callback                   *)
(* (frontend_sdl/src/main.rs).                                             *)
(*                                                                         *)
(* Sample values are kept as the expressions the code evaluates: a         *)
(* channel sample is either the literal 0.0 or the oscillator term         *)
(* "value of the wave with this period/duty at index i of n in the window  *)
(* starting at cycle start lasting dur cycles"; a mixed sample is the      *)
(* triple of channel samples fed to the mixing formula.  The NUMBER of     *)
(* samples is computed bit-exactly as the code's f64 arithmetic does.      *)
(***************************************************************************)
EXTENDS Integers, Sequences, FiniteSets, TLC

VARIABLES
    apu,             \* the APU of the current session (struct APU)
    buffer,          \* the VecDeque<f32> behind Arc<Mutex<..>> of the SampleBuffer
    samples_per_second, \* SampleBuffer.samples_per_second of the shared buffer
    out,             \* the slice filled by the last SampleBuffer::output_samples
    overflow_checks, \* build profile: TRUE = arithmetic overflow panics (debug)
    panicked,        \* the process died (panic or failed allocation)
    last_call,       \* history: the API call made by the last step and its cycle argument
    nes,             \* main_loop's nes: "None", or "Some" (its APU is apu)
    new_nes,         \* the NES that load_nes_system returned to the DropFile handler
    paused,          \* main_loop's paused
    pending,         \* the APU call the simulation is in the middle of
    main_pc,         \* where the main thread is in main_loop
    audio_pc,        \* where the SDL audio thread is
    queue_lock,      \* holder of the Mutex of the SampleBuffer
    device_lock,     \* holder of the SDL audio device lock
    device_status,   \* SDL audio device status: "paused", "playing" or "closed"
    written,         \* history: the samples written to the queue since it was last cleared
    delivered,       \* history: the queued samples output_samples handed out since then
    bus,             \* the struct NES of src/nes.rs: registers, RAM, cycle counter
    bus_call,        \* history: the bus operation made by the last step
    last_write,      \* history: the last write8 the bus performed
    push_run         \* history: the push8 calls made in a row so far

build == <<samples_per_second, overflow_checks, panicked, last_call>>
frontend == <<nes, new_nes, paused, pending, main_pc, audio_pc, queue_lock, device_lock,
              device_status, written, delivered>>
core == <<bus, bus_call, last_write, push_run>>
vars == <<apu, buffer, out, build, frontend, core>>

---------------------------------------------------------------------------
(* Program constants *)

CPU_FREQ == 1789773

SQUARE1 == 1
SQUARE2 == 2
TRIANGLE == 4
NOISE == 8
DMC == 16

AudioChannels_all == SQUARE1 + SQUARE2 + TRIANGLE + NOISE + DMC
AudioChannels_empty == 0

Channels == {SQUARE1, SQUARE2, TRIANGLE, NOISE, DMC}

\* significand width of f64 (`as f64` in run_until_cycle)
F64_MANTISSA_BITS == 53
\* arithmetic of the model: limb width, limbs of a quotient, width of an integer
LIMB_BITS == 9
DIV_LIMBS == 9
USIZE_MODEL_BITS == 30

---------------------------------------------------------------------------
(* Bounds of the model *)

\* flush targets are multiples of CycleUnit up to MaxCycleUnits units (and 7)
CycleUnit == 40
MaxCycleUnits == 2
\* a flush is explored only when it yields at most MaxFlush samples
MaxFlush == 6
\* samples are appended to a queue of at most MaxQueue samples
MaxQueue == 1
\* the audio callback asks for 1..MaxOut samples
MaxOut == 2
\* the flushes of a sequence are counted up to MaxCounted
MaxCounted == 3

Cycles == {k * CycleUnit : k \in 0..MaxCycleUnits} \cup {7}
\* sample rates of the device: the frontend's 48 kHz, and one rate per sample
Rates == {48000, CPU_FREQ}
\* register addresses written: $4000 (pulse 1 duty), $4001 (ramp, a no-op),
\* $4002 (pulse 1 period), $4015 (enable) and the unlisted $4017
Addrs == {16384, 16385, 16386, 16405, 16407}
\* values written: 0x01 (mask SQUARE1, period 1, duty 0.125) and 0x47 (mask
\* SQUARE1|SQUARE2|TRIANGLE, period 71, high bits 7, duty 0.25)
Values == {1, 71}
\* channels the user toggles
Toggled == {SQUARE1}

---------------------------------------------------------------------------
(* u8 bit operations (bitflags, masks and shifts of the register writes) *)

RECURSIVE BitAndN(_, _, _)
BitAndN(x, y, n) ==
    IF n = 0 \/ x = 0 \/ y = 0 THEN 0
    ELSE (IF x % 2 = 1 /\ y % 2 = 1 THEN 1 ELSE 0) + 2 * BitAndN(x \div 2, y \div 2, n - 1)

BitAnd(x, y) == BitAndN(x, y, 16)

RECURSIVE BitOrN(_, _, _)
BitOrN(x, y, n) ==
    IF n = 0 \/ (x = 0 /\ y = 0) THEN 0
    ELSE (IF x % 2 = 1 \/ y % 2 = 1 THEN 1 ELSE 0) + 2 * BitOrN(x \div 2, y \div 2, n - 1)

BitOr(x, y) == BitOrN(x, y, 16)

RECURSIVE BitXorN(_, _, _)
BitXorN(x, y, n) ==
    IF n = 0 \/ (x = 0 /\ y = 0) THEN 0
    ELSE (IF x % 2 # y % 2 THEN 1 ELSE 0) + 2 * BitXorN(x \div 2, y \div 2, n - 1)

BitXor(x, y) == BitXorN(x, y, 16)

\* bitflags: AudioChannels::contains
contains(mask, channel) == BitAnd(mask, channel) = channel

\* a conversion that keeps the bits of no channel
from_bits_retain(value) == value

\* bitflags: AudioChannels::from_bits_truncate
from_bits_truncate(value) == BitAnd(value, AudioChannels_all)

---------------------------------------------------------------------------
(* IEEE-754 binary64 arithmetic on the values run_until_cycle computes.    *)
(* A positive double is [zero |-> FALSE, sig, exp]: sig is its 53-bit      *)
(* significand, most significant bit first, and its value is sig * 2^exp.  *)
(* Long division and multiplication work on 9-bit limbs so that every      *)
(* intermediate value fits a 32-bit integer.                               *)

F64Zero == [zero |-> TRUE, sig |-> <<>>, exp |-> 0]

\* the w-bit big-endian binary form of v
BitsOf(v, w) == [j \in 1..w |-> (v \div (2 ^ (w - j))) % 2]

\* the integer whose binary form is bits[lo..hi]
RECURSIVE BitsValue(_, _, _)
BitsValue(bits, lo, hi) ==
    IF lo > hi THEN 0
    ELSE IF lo = hi THEN bits[lo]
    ELSE BitsValue(bits, lo, (lo + hi) \div 2) * (2 ^ (hi - (lo + hi) \div 2))
         + BitsValue(bits, (lo + hi) \div 2 + 1, hi)

\* the bits of a big-endian sequence of LIMB_BITS-bit limbs
LimbsToBits(limbs) ==
    [j \in 1..(LIMB_BITS * Len(limbs)) |->
        (limbs[(j - 1) \div LIMB_BITS + 1]
            \div (2 ^ (LIMB_BITS - 1 - ((j - 1) % LIMB_BITS)))) % 2]

\* bits without its leading zeros (bits holds a 1)
StripLeadingZeros(bits) ==
    SubSeq(bits,
           CHOOSE j \in 1..Len(bits) :
               bits[j] = 1 /\ \A k \in 1..(j - 1) : bits[k] = 0,
           Len(bits))

\* sig + 1 unit in the last place, for a sig that is not all ones
IncBits(sig, p) == [j \in 1..Len(sig) |-> IF j < p THEN sig[j] ELSE IF j = p THEN 1 ELSE 0]

\* round to nearest, ties to even: bits is normalised (leading 1, at least
\* 54 bits or exactly 53), its value is bits * 2^e (+ a positive rest smaller
\* than one unit of the last bit when inexact)
F64Round(bits, e, inexact) ==
    IF Len(bits) > F64_MANTISSA_BITS /\ bits[F64_MANTISSA_BITS + 1] = 1
       /\ (inexact \/ bits[F64_MANTISSA_BITS] = 1
           \/ \E j \in (F64_MANTISSA_BITS + 2)..Len(bits) : bits[j] = 1)
    THEN IF \A j \in 1..F64_MANTISSA_BITS : bits[j] = 1
         THEN [zero |-> FALSE,
               sig |-> [j \in 1..F64_MANTISSA_BITS |-> IF j = 1 THEN 1 ELSE 0],
               exp |-> e + (Len(bits) - F64_MANTISSA_BITS) + 1]
         ELSE [zero |-> FALSE,
               sig |-> IncBits(SubSeq(bits, 1, F64_MANTISSA_BITS),
                               CHOOSE p \in 1..F64_MANTISSA_BITS :
                                   bits[p] = 0
                                   /\ \A k \in (p + 1)..F64_MANTISSA_BITS : bits[k] = 1),
               exp |-> e + (Len(bits) - F64_MANTISSA_BITS)]
    ELSE [zero |-> FALSE,
          sig |-> SubSeq(bits, 1, F64_MANTISSA_BITS),
          exp |-> e + (Len(bits) - F64_MANTISSA_BITS)]

\* n more limbs of the quotient rem / b (rem < b < 2^21), and the remainder
RECURSIVE DivLimbs(_, _, _, _)
DivLimbs(rem, b, n, acc) ==
    IF n = 0 THEN [limbs |-> acc, rem |-> rem]
    ELSE DivLimbs((rem * (2 ^ LIMB_BITS)) % b, b, n - 1,
                  Append(acc, (rem * (2 ^ LIMB_BITS)) \div b))

F64DivLimbs(q0, d) ==
    F64Round(StripLeadingZeros(BitsOf(q0, USIZE_MODEL_BITS) \o LimbsToBits(d.limbs)),
             0 - LIMB_BITS * Len(d.limbs), d.rem # 0)

\* (a as f64) / (b as f64) for integers 0 <= a < 2^30, 0 < b < 2^21 (exactly
\* representable as f64), rounded to nearest, ties to even
F64Div(a, b) ==
    IF a = 0 THEN F64Zero
    ELSE F64DivLimbs(a \div b, DivLimbs(a % b, b, DIV_LIMBS, <<>>))

\* the limbs of r * (limbs), least significant limb last, with the carry out
RECURSIVE MulLimbs(_, _, _, _, _)
MulLimbs(limbs, r, k, carry, acc) ==
    IF k = 0 THEN [limbs |-> acc, carry |-> carry]
    ELSE MulLimbs(limbs, r, k - 1, (limbs[k] * r + carry) \div (2 ^ LIMB_BITS),
                  <<(limbs[k] * r + carry) % (2 ^ LIMB_BITS)>> \o acc)

\* the 54 bits <<0>> \o sig as six 9-bit limbs
SigLimbs(sig) ==
    [k \in 1..((F64_MANTISSA_BITS + 1) \div LIMB_BITS) |->
        BitsValue(<<0>> \o sig, LIMB_BITS * (k - 1) + 1, LIMB_BITS * k)]

F64MulLimbs(m, e) ==
    F64Round(StripLeadingZeros(BitsOf(m.carry, USIZE_MODEL_BITS) \o LimbsToBits(m.limbs)),
             e, FALSE)

\* (r as f64) * x for an integer 0 <= r < 2^21, rounded to nearest, ties to even
F64MulInt(r, x) ==
    IF x.zero \/ r = 0 THEN F64Zero
    ELSE F64MulLimbs(MulLimbs(SigLimbs(x.sig), r, (F64_MANTISSA_BITS + 1) \div LIMB_BITS,
                              0, <<>>), x.exp)

\* x as usize: truncation toward zero (the values met here are below 2^30)
F64ToUsize(x) ==
    IF x.zero \/ F64_MANTISSA_BITS + x.exp <= 0 THEN 0
    ELSE BitsValue(x.sig, 1, F64_MANTISSA_BITS + x.exp)

---------------------------------------------------------------------------
(* Sample values *)

\* the f32 literal 0.0 (Vec::resize filler, output.fill(0.0))
Zero == [osc |-> "zero", period |-> 0, duty |-> 0, start |-> 0, dur |-> 0, i |-> 0, n |-> 0]

\* SquareWave::output_samples, lines 217-226: the sample at index i of n of the
\* window [start, start + dur) cycles is +volume or -volume (volume is 1.0),
\* decided by period, duty_cycle and the sample time
SquareSample(w, start, dur, i, n) ==
    [osc |-> "square", period |-> w.period, duty |-> w.duty_cycle,
     start |-> start, dur |-> dur, i |-> i, n |-> n]

\* TriangleWave::output_samples, lines 282-299
TriangleSample(w, start, dur, i, n) ==
    [osc |-> "triangle", period |-> w.period, duty |-> 0,
     start |-> start, dur |-> dur, i |-> i, n |-> n]

\* run_until_cycle, lines 128-137: the mixed sample is
\* 0.00752 * (pulse1 + pulse2) + 0.00851 * triangle + 0.00494 * 0.0 + 0.00335 * 0.0
Mix(pulse1, pulse2, triangle) ==
    [pulse1 |-> pulse1, pulse2 |-> pulse2, triangle |-> triangle]

\* 0.0 as an element of the queue: what mixing three 0.0 gives
Silence == Mix(Zero, Zero, Zero)

\* Vec::resize(n, 0f32): truncates, or appends 0.0; kept elements keep their value
resize(v, n) == [i \in 1..n |-> IF i <= Len(v) THEN v[i] ELSE Zero]

---------------------------------------------------------------------------
(* Oscillators *)

\* duty_cycle is held in eighths: 0.125 = 1, 0.25 = 2, 0.5 = 4, 0.75 = 6
SquareWave_new == [volume |-> 1, duty_cycle |-> 4, period |-> 0]

TriangleWave_new == [period |-> 0]

\* a pulse that is never muted
SquareWave_output_samples_unmuted(w, start, dur, output) ==
    [i \in 1..Len(output) |-> SquareSample(w, start, dur, i - 1, Len(output))]

SquareWave_output_samples(w, start, dur, output) ==
    IF w.period < 8
    THEN [i \in 1..Len(output) |-> Zero]
    ELSE [i \in 1..Len(output) |-> SquareSample(w, start, dur, i - 1, Len(output))]

TriangleWave_output_samples(w, start, dur, output) ==
    IF w.period < 2
    THEN [i \in 1..Len(output) |-> Zero]
    ELSE [i \in 1..Len(output) |-> TriangleSample(w, start, dur, i - 1, Len(output))]

\* a coarse tune that shifts the whole value into the period
SquareWave_write_coarse_tune_unmasked(w, value) ==
    [w EXCEPT !.period = BitOr(BitAnd(w.period, 255), value * 256)]

\* $4003/$4007: period & 0x00FF | ((value & 0x7) << 8)
SquareWave_write_coarse_tune(w, value) ==
    [w EXCEPT !.period = BitOr(BitAnd(w.period, 255), BitAnd(value, 7) * 256)]

\* $4002/$4006: period & 0xFF00 | value
SquareWave_write_fine_tune(w, value) ==
    [w EXCEPT !.period = BitOr(BitAnd(w.period, 65280), value)]

\* $4000/$4004: duty from value >> 6
SquareWave_write_control(w, value) ==
    [w EXCEPT !.duty_cycle = CASE value \div 64 = 0 -> 1
                               [] value \div 64 = 1 -> 2
                               [] value \div 64 = 2 -> 4
                               [] value \div 64 = 3 -> 6]

\* a ramp write that is taken for a control write
SquareWave_write_ramp_as_control(w, value) == SquareWave_write_control(w, value)

\* $4001/$4005
SquareWave_write_ramp(w, value) == w

\* $4008
TriangleWave_write_control(w, value) == w

\* $400A
TriangleWave_write_fine_tune(w, value) ==
    [w EXCEPT !.period = BitOr(BitAnd(w.period, 65280), value)]

\* $400B
TriangleWave_write_coarse_tune(w, value) ==
    [w EXCEPT !.period = BitOr(BitAnd(w.period, 255), BitAnd(value, 7) * 256)]

---------------------------------------------------------------------------
(* SampleBuffer: the operations on the queue (made under its mutex) *)

\* the queue after output_samples filled a slice of n entries
SampleBuffer_output_samples_queue(queue, n) ==
    SubSeq(queue, n + 1, Len(queue))

\* a slice that keeps only what was queued
SampleBuffer_output_samples_unpadded(queue, n) ==
    SubSeq(queue, 1, IF n < Len(queue) THEN n ELSE Len(queue))

\* the slice after output_samples: pop_front().unwrap_or(0.0) for each entry
SampleBuffer_output_samples_out(queue, n) ==
    [i \in 1..n |-> IF i <= Len(queue) THEN queue[i] ELSE Silence]

\* samples put in front of the queued ones
SampleBuffer_write_samples_front(queue, samples) == samples \o queue

\* buffer.extend(samples)
SampleBuffer_write_samples(queue, samples) == queue \o samples

\* buffer.clear()
SampleBuffer_clear(queue) == <<>>

---------------------------------------------------------------------------
(* APU *)

None == [some |-> FALSE, samples_per_second |-> 0]
Some(rate) == [some |-> TRUE, samples_per_second |-> rate]

APU_new ==
    [output_buffer |-> None,
     square_wave1 |-> SquareWave_new,
     square_wave2 |-> SquareWave_new,
     triangle_wave |-> TriangleWave_new,
     guest_enabled_channels |-> AudioChannels_empty,
     host_enabled_channels |-> AudioChannels_all,
     sq1_samples |-> <<>>,
     sq2_samples |-> <<>>,
     tri_samples |-> <<>>,
     mixed_samples |-> <<>>,
     last_cpu_cycles |-> 0]

attach_output_device(a, output_buffer) == [a EXCEPT !.output_buffer = output_buffer]

channel_enabled(a, channel) ==
    contains(BitAnd(a.host_enabled_channels, a.guest_enabled_channels), channel)

\* a toggle that only ever switches the channel on
toggle_channel_on(a, channel) ==
    [a EXCEPT !.host_enabled_channels = BitOr(a.host_enabled_channels, channel)]

toggle_channel(a, channel) ==
    [a EXCEPT !.host_enabled_channels = BitXor(a.host_enabled_channels, channel)]

\* line 105: the rate of the attached buffer, 0 without one
rate_of(a) ==
    IF a.output_buffer.some THEN a.output_buffer.samples_per_second ELSE 0

\* lines 107-109 for end_cpu_cycle >= start_cpu_cycle:
\* (samples_per_second as f64 * ((end - start) as f64 / CPU_FREQ as f64)) as usize
samples_to_output(rate, elapsed) ==
    F64ToUsize(F64MulInt(rate, F64Div(elapsed, CPU_FREQ)))

\* line 108, end_cpu_cycle - start_cpu_cycle on u64 when end < start: with
\* overflow checks the subtraction panics; without, it wraps to at least
\* 2^64 - 2^31 cycles, over 10^13 seconds, so that any rate >= 1 asks resize
\* (line 111) for more than 10^13 elements and the allocation fails, while rate 0
\* (no buffer attached) gives 0 samples
flush_outcome(a, end_cpu_cycle, checks) ==
    IF end_cpu_cycle >= a.last_cpu_cycles THEN "ok"
    ELSE IF checks THEN "panic"
    ELSE IF rate_of(a) > 0 THEN "abort"
    ELSE "ok"

\* samples_to_output on the rates and elapsed cycles of the model, computed once
SamplesTable ==
    [rate \in Rates \cup {0} |->
        [elapsed \in 0..(CycleUnit * MaxCycleUnits) |-> samples_to_output(rate, elapsed)]]

\* the number of samples of a flush that goes through
flush_samples(a, end_cpu_cycle) ==
    IF end_cpu_cycle >= a.last_cpu_cycles
    THEN SamplesTable[rate_of(a)][end_cpu_cycle - a.last_cpu_cycles]
    ELSE 0

\* lines 111-124 for one channel: resize, then the oscillator if enabled
sq1_after(a, end_cpu_cycle, n) ==
    IF channel_enabled(a, SQUARE1)
    THEN SquareWave_output_samples(a.square_wave1, a.last_cpu_cycles,
             end_cpu_cycle - a.last_cpu_cycles, resize(a.sq1_samples, n))
    ELSE resize(a.sq1_samples, n)

sq2_after(a, end_cpu_cycle, n) ==
    IF channel_enabled(a, SQUARE2)
    THEN SquareWave_output_samples(a.square_wave2, a.last_cpu_cycles,
             end_cpu_cycle - a.last_cpu_cycles, resize(a.sq2_samples, n))
    ELSE resize(a.sq2_samples, n)

tri_after(a, end_cpu_cycle, n) ==
    IF channel_enabled(a, TRIANGLE)
    THEN TriangleWave_output_samples(a.triangle_wave, a.last_cpu_cycles,
             end_cpu_cycle - a.last_cpu_cycles, resize(a.tri_samples, n))
    ELSE resize(a.tri_samples, n)

\* lines 126-138
mix_all(sq1, sq2, tri, n) == [i \in 1..n |-> Mix(sq1[i], sq2[i], tri[i])]

\* lines 111-138: the APU after synthesis and mixing of n samples
synthesize_channels(a, sq1, sq2, tri, n) ==
    [a EXCEPT !.sq1_samples = sq1, !.sq2_samples = sq2, !.tri_samples = tri,
              !.mixed_samples = mix_all(sq1, sq2, tri, n)]

synthesize(a, end_cpu_cycle, n) ==
    synthesize_channels(a, sq1_after(a, end_cpu_cycle, n), sq2_after(a, end_cpu_cycle, n),
                        tri_after(a, end_cpu_cycle, n), n)

\* lines 140-144: what the flush hands to write_samples (<<>>: no call)
flush_written(a) ==
    IF a.mixed_samples # <<>> /\ a.output_buffer.some THEN a.mixed_samples ELSE <<>>

\* a flush that leaves the watermark where it was
set_watermark_forgotten(a, end_cpu_cycle) == a

\* line 146
set_watermark(a, end_cpu_cycle) == [a EXCEPT !.last_cpu_cycles = end_cpu_cycle]

\* lines 140-146 on a synthesized APU a: the write to the queue, the watermark
flush_finish(a, queue, end_cpu_cycle) ==
    [apu |-> set_watermark(a, end_cpu_cycle),
     queue |-> SampleBuffer_write_samples(queue, flush_written(a))]

\* run_until_cycle, for a flush that goes through: the APU and the queue after it
run_until_cycle(a, queue, end_cpu_cycle) ==
    flush_finish(synthesize(a, end_cpu_cycle, flush_samples(a, end_cpu_cycle)),
                 queue, end_cpu_cycle)

\* write_register, lines 152-172: the dispatch by address
dispatch_register(a, addr, value) ==
    CASE addr = 16384 -> [a EXCEPT !.square_wave1 = SquareWave_write_control(@, value)]
      [] addr = 16385 -> [a EXCEPT !.square_wave1 = SquareWave_write_ramp(@, value)]
      [] addr = 16386 -> [a EXCEPT !.square_wave1 = SquareWave_write_fine_tune(@, value)]
      [] addr = 16387 -> [a EXCEPT !.square_wave1 = SquareWave_write_coarse_tune(@, value)]
      [] addr = 16388 -> [a EXCEPT !.square_wave2 = SquareWave_write_control(@, value)]
      [] addr = 16389 -> [a EXCEPT !.square_wave2 = SquareWave_write_ramp(@, value)]
      [] addr = 16390 -> [a EXCEPT !.square_wave2 = SquareWave_write_fine_tune(@, value)]
      [] addr = 16391 -> [a EXCEPT !.square_wave2 = SquareWave_write_coarse_tune(@, value)]
      [] addr = 16392 -> [a EXCEPT !.triangle_wave = TriangleWave_write_control(@, value)]
      [] addr = 16394 -> [a EXCEPT !.triangle_wave = TriangleWave_write_fine_tune(@, value)]
      [] addr = 16395 -> [a EXCEPT !.triangle_wave = TriangleWave_write_coarse_tune(@, value)]
      [] addr = 16405 -> [a EXCEPT !.guest_enabled_channels = from_bits_truncate(value)]
      [] OTHER -> a

\* the dispatch applied to the outcome of a flush
dispatch_after(flushed, addr, value) ==
    [flushed EXCEPT !.apu = dispatch_register(flushed.apu, addr, value)]

\* write_register: the flush to cpu_cycle, then the dispatch
write_register(a, queue, addr, value, cpu_cycle) ==
    dispatch_after(run_until_cycle(a, queue, cpu_cycle), addr, value)

---------------------------------------------------------------------------
(* main_loop's locals and the audio thread before the first event *)

NoNes == [some |-> FALSE, apu |-> APU_new]
SomeNes(a) == [some |-> TRUE, apu |-> a]

NoCall == [op |-> "none", addr |-> 0, value |-> 0, cycle |-> 0]
ApuCall(op, addr, value, cycle) == [op |-> op, addr |-> addr, value |-> value, cycle |-> cycle]

\* main.rs lines 65-72; SDL opens an audio device paused
InitMainLoop ==
    /\ nes = "None"
    /\ new_nes = NoNes
    /\ paused = FALSE
    /\ pending = NoCall
    /\ main_pc = "poll"
    /\ audio_pc = "idle"
    /\ queue_lock = "none"
    /\ device_lock = "none"
    /\ device_status = "paused"
    /\ written = <<>>
    /\ delivered = <<>>

---------------------------------------------------------------------------
(* The system bus and register file (src/nes.rs): struct NES, its status    *)
(* register codec, RAM with mirroring, code fetch and the stack.            *)

FLAG_C == 1
FLAG_Z == 2
FLAG_I == 4
FLAG_D == 8
FLAG_B == 16
FLAG_U == 32
FLAG_V == 64
FLAG_N == 128

\* ram: [u8; 2048], and the `% 0x800` of read8 and write8
RAM_SIZE == 2048
\* the `addr < 0x2000` of read8 and write8
RAM_WINDOW == 8192
\* the 0x0100 of push8 and pop8
STACK_BASE == 256
\* SP after reset_state
RESET_SP == 253
\* u8 and u16 hold 2^8 and 2^16 values
U8 == 256
U16 == 65536

\* bool as u8
as_u8(flag) == IF flag THEN 1 ELSE 0

\* a to_byte that leaves the unused bit clear
to_byte_without_unused(sr) ==
    BitOr(as_u8(sr.C),
    BitOr(as_u8(sr.Z) * 2,
    BitOr(as_u8(sr.I) * 4,
    BitOr(as_u8(sr.D) * 8,
    BitOr(as_u8(sr.V) * 64,
          as_u8(sr.N) * 128)))))

\* StatusRegister::to_byte
to_byte(sr) ==
    BitOr(as_u8(sr.C),
    BitOr(as_u8(sr.Z) * 2,
    BitOr(as_u8(sr.I) * 4,
    BitOr(as_u8(sr.D) * 8,
    BitOr(FLAG_U,
    BitOr(as_u8(sr.V) * 64,
          as_u8(sr.N) * 128))))))

\* StatusRegister::from_byte
from_byte(value) ==
    [C |-> BitAnd(value, FLAG_C) # 0,
     Z |-> BitAnd(value, FLAG_Z) # 0,
     I |-> BitAnd(value, FLAG_I) # 0,
     D |-> BitAnd(value, FLAG_D) # 0,
     V |-> BitAnd(value, FLAG_V) # 0,
     N |-> BitAnd(value, FLAG_N) # 0]

\* u8::wrapping_add, u8::wrapping_sub, u16::wrapping_add
u8_wrapping_add(x, y) == (x + y) % U8
u8_wrapping_sub(x, y) == (x + U8 - y) % U8
u16_wrapping_add(x, y) == (x + y) % U16

\* ram: [u8; 2048] is kept as the cells written since power-on; every other
\* cell still holds the 0 it was reset to.  ram[i]:
ram_load(ram, i) == IF i \in DOMAIN ram THEN ram[i] ELSE 0

\* ram[i] = val
ram_store(ram, i, val) == [j \in DOMAIN ram \cup {i} |-> IF j = i THEN val ELSE ram[j]]

\* history kept beside the NES: an 8-bit bus access
Access(kind, addr, val) == [kind |-> kind, addr |-> addr, val |-> val]

\* A NES record holds the fields of struct NES, and two fields that are not
\* the struct's: val, the value the operation under way returns, and log, the
\* 8-bit bus accesses it has made.

\* a read8 that mirrors RAM over the whole address space
read8_unwindowed(n, addr) ==
    [n EXCEPT !.cycles = @ + 1,
              !.val = ram_load(n.ram, addr % RAM_SIZE),
              !.log = Append(@, Access("read", addr, ram_load(n.ram, addr % RAM_SIZE)))]

\* a read8 that does not count its bus access
read8_uncounted(n, addr) ==
    [n EXCEPT !.val = IF addr < RAM_WINDOW THEN ram_load(n.ram, addr % RAM_SIZE) ELSE 0,
              !.log = Append(@, Access("read", addr,
                          IF addr < RAM_WINDOW THEN ram_load(n.ram, addr % RAM_SIZE) ELSE 0))]

\* NES::read8
read8(n, addr) ==
    [n EXCEPT !.cycles = @ + 1,
              !.val = IF addr < RAM_WINDOW THEN ram_load(n.ram, addr % RAM_SIZE) ELSE 0,
              !.log = Append(@, Access("read", addr,
                          IF addr < RAM_WINDOW THEN ram_load(n.ram, addr % RAM_SIZE) ELSE 0))]

\* (high as u16) << 8 | (low as u16)
word(high, low) == BitOr(high * U8, low)

\* NES::read_addr, the second read given the NES after the first
read_addr_high(low, addr) ==
    [read8(low, u16_wrapping_add(addr, 1)) EXCEPT !.val = word(@, low.val)]

\* NES::read_addr
read_addr(n, addr) == read_addr_high(read8(n, addr), addr)

\* NES::read_code
read_code(n) == [read8(n, n.PC) EXCEPT !.PC = u16_wrapping_add(@, 1)]

\* NES::read_code_addr, the second fetch given the NES after the first
read_code_addr_high(low) == [read_code(low) EXCEPT !.val = word(@, low.val)]

\* NES::read_code_addr
read_code_addr(n) == read_code_addr_high(read_code(n))

\* a write8 that stores only at the address itself, without mirroring
write8_unmirrored(n, addr, val) ==
    [n EXCEPT !.cycles = @ + 1,
              !.ram = IF addr < RAM_SIZE THEN ram_store(@, addr, val) ELSE @,
              !.log = Append(@, Access("write", addr, val))]

\* NES::write8
write8(n, addr, val) ==
    [n EXCEPT !.cycles = @ + 1,
              !.ram = IF addr < RAM_WINDOW THEN ram_store(@, addr % RAM_SIZE, val) ELSE @,
              !.log = Append(@, Access("write", addr, val))]

\* NES::reset_state
reset_state(n) == [n EXCEPT !.SP = RESET_SP]

\* NES::set_status_register
set_status_register(n, value) == [n EXCEPT !.SR = from_byte(value)]

\* NES::get_status_register
get_status_register(n) == [n EXCEPT !.val = to_byte(n.SR)]

\* a stack pointer that moves the wrong way on a push
push8_sp_up(n, value) ==
    [write8(n, STACK_BASE + n.SP, value) EXCEPT !.SP = u8_wrapping_add(@, 1)]

\* NES::push8
push8(n, value) ==
    [write8(n, STACK_BASE + n.SP, value) EXCEPT !.SP = u8_wrapping_sub(@, 1)]

\* NES::pop8, the read given the NES with SP already incremented
pop8_read(n) == read8(n, STACK_BASE + n.SP)

\* NES::pop8
pop8(n) == pop8_read([n EXCEPT !.SP = u8_wrapping_add(@, 1)])

\* NES::push16
push16(n, value) == push8(push8(n, value \div U8), BitAnd(value, 255))

\* NES::pop16, the second pop given the NES after the first
pop16_high(low) == [pop8(low) EXCEPT !.val = word(@, low.val)]

\* NES::pop16
pop16(n) == pop16_high(pop8(n))

\* write8 and the status setter return nothing
NoValue == -1

\* a struct NES whose RAM is all zero, flags clear, no cycle spent
PowerOn(sp, pc) ==
    [cycles |-> 0, A |-> 0, X |-> 0, Y |-> 0, SP |-> sp, SR |-> from_byte(0), PC |-> pc,
     ram |-> [i \in {} |-> 0],
     val |-> NoValue, log |-> <<>>]

\* history: the operation of the last step, its value argument and SP before it
BusCall(op, value, sp) == [op |-> op, value |-> value, sp |-> sp]

\* history: the last write8 made, if any
NoWrite == [some |-> FALSE, addr |-> 0, val |-> 0]
SomeWrite(access) == [some |-> TRUE, addr |-> access.addr, val |-> access.val]

\* history: the number of push8 calls made in a row, SP before the first, and
\* the value pushed if it was the same every time
NoRun == [n |-> 0, sp |-> 0, value |-> NoValue]

\* the bus while the audio path is exercised: nothing touches it
BusIdle ==
    /\ bus = PowerOn(RESET_SP, 0)
    /\ bus_call = BusCall("new", NoValue, RESET_SP)
    /\ last_write = NoWrite
    /\ push_run = NoRun
---------------------------------------------------------------------------
(* The APU and its Sample Buffer under any sequence of API calls *)

\* history: the flushes are not counted (the device was not attached at cycle 0,
\* or a flush target went backwards)
NotCounted == -1

\* history: the number of flushes made so far, once the call is made: run_until_cycle
\* and write_register flush; a target below the watermark, or a device first
\* attached after cycle 0, ends the count
counted(op, cycle) ==
    IF last_call.flushes = NotCounted THEN NotCounted
    ELSE IF op = "attach_output_device"
    THEN IF apu.output_buffer.some \/ apu.last_cpu_cycles = 0
         THEN last_call.flushes ELSE NotCounted
    ELSE IF op \notin {"run_until_cycle", "write_register"} THEN last_call.flushes
    ELSE IF cycle < apu.last_cpu_cycles THEN NotCounted
    ELSE last_call.flushes + 1

\* history: a call, its cycle argument (0 when it has none), whether it is a
\* run_until_cycle that repeats the run_until_cycle made just before it, and the
\* number of flushes made since the device was attached at cycle 0 (if counted)
Call(op, cycle) == [op |-> op, cycle |-> cycle, again |-> FALSE, flushes |-> NotCounted]

Called(op, cycle) ==
    [op |-> op, cycle |-> cycle,
     again |-> op = "run_until_cycle" /\ last_call.op = op /\ last_call.cycle = cycle,
     flushes |-> counted(op, cycle)]

Init ==
    /\ apu = APU_new
    /\ buffer = <<>>
    /\ samples_per_second \in Rates
    /\ out = <<>>
    /\ overflow_checks \in BOOLEAN
    /\ panicked = FALSE
    /\ last_call = Call("new", 0)
    /\ InitMainLoop
    /\ BusIdle

\* apu.attach_output_device(buffer.clone_ref())
AttachOutputDevice ==
    /\ ~panicked
    /\ apu' = attach_output_device(apu, Some(samples_per_second))
    /\ last_call' = Called("attach_output_device", 0)
    /\ UNCHANGED <<buffer, samples_per_second, out, overflow_checks, panicked, frontend, core>>

\* the model explores a flush of at most MaxFlush samples, made when at most
\* MaxQueue samples are queued, and counts at most MaxCounted flushes
FlushInBounds(end_cpu_cycle) ==
    /\ flush_samples(apu, end_cpu_cycle) <= MaxFlush
    /\ (flush_samples(apu, end_cpu_cycle) = 0 \/ Len(buffer) <= MaxQueue)
    /\ (last_call.flushes # NotCounted => last_call.flushes < MaxCounted)

\* apu.run_until_cycle(end_cpu_cycle)
RunUntilCycle(end_cpu_cycle) ==
    /\ ~panicked
    /\ FlushInBounds(end_cpu_cycle)
    /\ last_call' = Called("run_until_cycle", end_cpu_cycle)
    /\ IF flush_outcome(apu, end_cpu_cycle, overflow_checks) = "ok"
       THEN /\ LET after == run_until_cycle(apu, buffer, end_cpu_cycle)
               IN apu' = after.apu /\ buffer' = after.queue
            /\ UNCHANGED panicked
       ELSE /\ panicked' = TRUE
            /\ UNCHANGED <<apu, buffer>>
    /\ UNCHANGED <<samples_per_second, out, overflow_checks, frontend, core>>

\* apu.write_register(addr, value, cpu_cycle)
WriteRegister(addr, value, cpu_cycle) ==
    /\ ~panicked
    /\ FlushInBounds(cpu_cycle)
    /\ last_call' = Called("write_register", cpu_cycle)
    /\ IF flush_outcome(apu, cpu_cycle, overflow_checks) = "ok"
       THEN /\ LET after == write_register(apu, buffer, addr, value, cpu_cycle)
               IN apu' = after.apu /\ buffer' = after.queue
            /\ UNCHANGED panicked
       ELSE /\ panicked' = TRUE
            /\ UNCHANGED <<apu, buffer>>
    /\ UNCHANGED <<samples_per_second, out, overflow_checks, frontend, core>>

\* apu.toggle_channel(channel)
ToggleChannel(channel) ==
    /\ ~panicked
    /\ apu' = toggle_channel(apu, channel)
    /\ last_call' = Called("toggle_channel", 0)
    /\ UNCHANGED <<buffer, samples_per_second, out, overflow_checks, panicked, frontend, core>>

Next ==
    \/ AttachOutputDevice
    \/ \E c \in Cycles : RunUntilCycle(c)
    \/ \E addr \in Addrs, value \in Values, c \in Cycles : WriteRegister(addr, value, c)
    \/ \E channel \in Toggled : ToggleChannel(channel)

Spec == Init /\ [][Next]_vars

---------------------------------------------------------------------------
(* The SDL frontend: main_loop on the main thread, NesAudioCallback on the  *)
(* SDL audio thread.  Every SampleBuffer operation takes the queue's Mutex  *)
(* for its whole body; the SDL audio thread runs the callback under the     *)
(* device lock, which audio_device.lock() also takes.  The KeyDown handlers  *)
(* of Num1..Num5 (toggle_channel) take no lock and touch no queue: they are  *)
(* explored in Spec.  No step of the frontend flushes backwards, so the      *)
(* build profile makes no difference here and the release build is taken.    *)

\* the device rate the frontend asks for (AudioSpecDesired.freq)
FrontendRates == {48000}
\* register writes the simulated program makes: $4015 <- 0x01, $4002 <- 0x47
FrontendWrites == {<<16405, 1>>, <<16386, 71>>}
\* cycle counts at which the simulation calls the APU
FrontendCycles == {k * CycleUnit : k \in 0..MaxCycleUnits}

\* Mutex::lock succeeds for a thread when nobody holds the lock
lock(holder, thread) == thread
\* a guard that is never dropped
guard_leaked(holder) == holder
\* the MutexGuard goes out of scope at the end of the SampleBuffer method
drop_guard(holder) == "none"

InitFrontend ==
    /\ apu = APU_new
    /\ buffer = <<>>
    /\ samples_per_second \in FrontendRates
    /\ out = <<>>
    /\ overflow_checks = FALSE
    /\ panicked = FALSE
    /\ last_call = Call("new", 0)
    /\ InitMainLoop
    /\ BusIdle

\* Event::Quit: break 'running; main_loop returns and audio_device is dropped
Quit ==
    /\ main_pc = "poll"
    /\ main_pc' = "exited"
    /\ device_status' = "closed"
    /\ UNCHANGED <<apu, buffer, out, build, core, nes, new_nes, paused, pending, audio_pc,
                   queue_lock, device_lock, written, delivered>>

\* Event::KeyDown Escape
Escape ==
    /\ main_pc = "poll"
    /\ paused' = ~paused
    /\ UNCHANGED <<apu, buffer, out, build, core, nes, new_nes, pending, main_pc, audio_pc,
                   queue_lock, device_lock, device_status, written, delivered>>

\* Event::DropFile, load_nes_system returns Ok(new_nes)
DropFileOk ==
    /\ main_pc = "poll"
    /\ new_nes' = SomeNes(APU_new)
    /\ main_pc' = "audio_device.lock"
    /\ UNCHANGED <<apu, buffer, out, build, core, nes, paused, pending, audio_pc,
                   queue_lock, device_lock, device_status, written, delivered>>

\* an Err branch that clears the Sample Buffer before showing the dialog
DropFileErr_clearing ==
    /\ main_pc = "poll"
    /\ buffer' = SampleBuffer_clear(buffer)
    /\ written' = <<>>
    /\ delivered' = <<>>
    /\ main_pc' = "display_error_dialog"
    /\ UNCHANGED <<apu, out, build, core, nes, new_nes, paused, pending, audio_pc,
                   queue_lock, device_lock, device_status>>

\* Event::DropFile, load_nes_system returns Err(e): the error dialog is shown
DropFileErr ==
    /\ main_pc = "poll"
    /\ main_pc' = "display_error_dialog"
    /\ UNCHANGED <<apu, buffer, out, build, core, nes, new_nes, paused, pending, audio_pc,
                   queue_lock, device_lock, device_status, written, delivered>>

\* display_error_dialog returns
ErrorDialogClosed ==
    /\ main_pc = "display_error_dialog"
    /\ main_pc' = "poll"
    /\ UNCHANGED <<apu, buffer, out, build, core, nes, new_nes, paused, pending, audio_pc,
                   queue_lock, device_lock, device_status, written, delivered>>

\* audio_device.lock() returns the guard of the device lock
AudioDeviceLock ==
    /\ main_pc = "audio_device.lock"
    /\ device_lock = "none"
    /\ device_lock' = lock(device_lock, "main")
    /\ main_pc' = "get_output_buffer"
    /\ UNCHANGED <<apu, buffer, out, build, core, nes, new_nes, paused, pending, audio_pc,
                   queue_lock, device_status, written, delivered>>

\* .get_output_buffer() clones the handle; the guard, a temporary, is dropped at
\* the end of the let statement
GetOutputBuffer ==
    /\ main_pc = "get_output_buffer"
    /\ device_lock' = drop_guard(device_lock)
    /\ main_pc' = "clear.lock"
    /\ UNCHANGED <<apu, buffer, out, build, core, nes, new_nes, paused, pending, audio_pc,
                   queue_lock, device_status, written, delivered>>

\* sample_buffer.clear(): self.buffer.lock()
ClearLock ==
    /\ main_pc = "clear.lock"
    /\ queue_lock = "none"
    /\ queue_lock' = lock(queue_lock, "main")
    /\ main_pc' = "clear"
    /\ UNCHANGED <<apu, buffer, out, build, core, nes, new_nes, paused, pending, audio_pc,
                   device_lock, device_status, written, delivered>>

\* sample_buffer.clear(): buffer.clear() and the guard's drop
Clear ==
    /\ main_pc = "clear"
    /\ buffer' = SampleBuffer_clear(buffer)
    /\ written' = <<>>
    /\ delivered' = <<>>
    /\ queue_lock' = drop_guard(queue_lock)
    /\ main_pc' = "attach_output_device"
    /\ UNCHANGED <<apu, out, build, core, nes, new_nes, paused, pending, audio_pc,
                   device_lock, device_status>>

\* new_nes.apu.attach_output_device(sample_buffer)
Attach ==
    /\ main_pc = "attach_output_device"
    /\ new_nes' = SomeNes(attach_output_device(new_nes.apu, Some(samples_per_second)))
    /\ main_pc' = "resume"
    /\ UNCHANGED <<apu, buffer, out, build, core, nes, paused, pending, audio_pc,
                   queue_lock, device_lock, device_status, written, delivered>>

\* audio_device.resume()
Resume ==
    /\ main_pc = "resume"
    /\ device_status' = "playing"
    /\ main_pc' = "nes = Some(new_nes)"
    /\ UNCHANGED <<apu, buffer, out, build, core, nes, new_nes, paused, pending, audio_pc,
                   queue_lock, device_lock, written, delivered>>

\* nes = Some(new_nes): the previous NES, if any, is dropped
ReplaceNes ==
    /\ main_pc = "nes = Some(new_nes)"
    /\ nes' = "Some"
    /\ apu' = new_nes.apu
    /\ new_nes' = NoNes
    /\ main_pc' = "poll"
    /\ UNCHANGED <<buffer, out, build, core, paused, pending, audio_pc,
                   queue_lock, device_lock, device_status, written, delivered>>

\* the events are exhausted: simulate a frame if not paused and a NES is loaded
EndOfEvents ==
    /\ main_pc = "poll"
    /\ main_pc' = IF ~paused /\ nes = "Some" THEN "simulate_frame" ELSE "present"
    /\ UNCHANGED <<apu, buffer, out, build, core, nes, new_nes, paused, pending, audio_pc,
                   queue_lock, device_lock, device_status, written, delivered>>

\* the rest of the loop body: the texture update and canvas.present()
Present ==
    /\ main_pc = "present"
    /\ main_pc' = "poll"
    /\ UNCHANGED <<apu, buffer, out, build, core, nes, new_nes, paused, pending, audio_pc,
                   queue_lock, device_lock, device_status, written, delivered>>

\* simulate_frame calls the APU at the bus's cycle count, which never decreases:
\* run_until_cycle up to line 138 (synthesis and mixing)
Synthesize(call) ==
    /\ main_pc = "simulate_frame"
    /\ call.cycle >= apu.last_cpu_cycles
    /\ FlushInBounds(call.cycle)
    /\ apu' = synthesize(apu, call.cycle, flush_samples(apu, call.cycle))
    /\ pending' = call
    /\ main_pc' = IF flush_written(apu') # <<>> THEN "write_samples.lock" ELSE "flushed"
    /\ UNCHANGED <<buffer, out, build, core, nes, new_nes, paused, audio_pc,
                   queue_lock, device_lock, device_status, written, delivered>>

\* output_buffer.write_samples(&self.mixed_samples): self.buffer.lock()
WriteSamplesLock ==
    /\ main_pc = "write_samples.lock"
    /\ queue_lock = "none"
    /\ queue_lock' = lock(queue_lock, "main")
    /\ main_pc' = "write_samples"
    /\ UNCHANGED <<apu, buffer, out, build, core, nes, new_nes, paused, pending, audio_pc,
                   device_lock, device_status, written, delivered>>

\* write_samples: buffer.extend(samples) and the guard's drop
WriteSamples ==
    /\ main_pc = "write_samples"
    /\ buffer' = SampleBuffer_write_samples(buffer, flush_written(apu))
    /\ written' = written \o flush_written(apu)
    /\ queue_lock' = drop_guard(queue_lock)
    /\ main_pc' = "flushed"
    /\ UNCHANGED <<apu, out, build, core, nes, new_nes, paused, pending, audio_pc,
                   device_lock, device_status, delivered>>

\* run_until_cycle line 146, and for write_register the dispatch that follows
Flushed ==
    /\ main_pc = "flushed"
    /\ apu' = IF pending.op = "write_register"
              THEN dispatch_register(set_watermark(apu, pending.cycle),
                                     pending.addr, pending.value)
              ELSE set_watermark(apu, pending.cycle)
    /\ pending' = NoCall
    /\ main_pc' = "simulate_frame"
    /\ UNCHANGED <<buffer, out, build, core, nes, new_nes, paused, audio_pc,
                   queue_lock, device_lock, device_status, written, delivered>>

\* simulate_frame returns; render_nes_to_surface
EndOfFrame ==
    /\ main_pc = "simulate_frame"
    /\ main_pc' = "present"
    /\ UNCHANGED <<apu, buffer, out, build, core, nes, new_nes, paused, pending, audio_pc,
                   queue_lock, device_lock, device_status, written, delivered>>

\* the SDL audio thread, device playing: takes the device lock and calls
\* NesAudioCallback::callback
CallbackStart ==
    /\ audio_pc = "idle"
    /\ device_status = "playing"
    /\ device_lock = "none"
    /\ device_lock' = lock(device_lock, "audio")
    /\ audio_pc' = "output_samples.lock"
    /\ UNCHANGED <<apu, buffer, out, build, core, nes, new_nes, paused, pending, main_pc,
                   queue_lock, device_status, written, delivered>>

\* self.output_buffer.output_samples(out): self.buffer.lock()
OutputSamplesLock ==
    /\ audio_pc = "output_samples.lock"
    /\ queue_lock = "none"
    /\ queue_lock' = lock(queue_lock, "audio")
    /\ audio_pc' = "output_samples"
    /\ UNCHANGED <<apu, buffer, out, build, core, nes, new_nes, paused, pending, main_pc,
                   device_lock, device_status, written, delivered>>

\* output_samples on a slice of n entries: the loop of pop_front().unwrap_or(0.0)
\* and the guard's drop
OutputSamples(n) ==
    /\ audio_pc = "output_samples"
    /\ out' = SampleBuffer_output_samples_out(buffer, n)
    /\ buffer' = SampleBuffer_output_samples_queue(buffer, n)
    /\ delivered' = delivered \o SubSeq(buffer, 1, IF n < Len(buffer) THEN n ELSE Len(buffer))
    /\ queue_lock' = drop_guard(queue_lock)
    /\ audio_pc' = "callback return"
    /\ UNCHANGED <<apu, build, core, nes, new_nes, paused, pending, main_pc,
                   device_lock, device_status, written>>

\* the callback returns its slice to SDL, and the SDL audio thread releases the
\* device lock
CallbackReturn ==
    /\ audio_pc = "callback return"
    /\ device_lock' = drop_guard(device_lock)
    /\ audio_pc' = "idle"
    /\ out' = <<>>
    /\ UNCHANGED <<apu, buffer, build, core, nes, new_nes, paused, pending, main_pc,
                   queue_lock, device_status, written, delivered>>

SimulatedCalls ==
    {ApuCall("run_until_cycle", 0, 0, c) : c \in FrontendCycles}
        \cup {ApuCall("write_register", w[1], w[2], c) : w \in FrontendWrites, c \in FrontendCycles}

MainThread ==
    \/ Quit
    \/ Escape
    \/ DropFileOk
    \/ DropFileErr
    \/ ErrorDialogClosed
    \/ AudioDeviceLock
    \/ GetOutputBuffer
    \/ ClearLock
    \/ Clear
    \/ Attach
    \/ Resume
    \/ ReplaceNes
    \/ EndOfEvents
    \/ Present
    \/ \E call \in SimulatedCalls : Synthesize(call)
    \/ WriteSamplesLock
    \/ WriteSamples
    \/ Flushed
    \/ EndOfFrame

AudioThread ==
    \/ CallbackStart
    \/ OutputSamplesLock
    \/ \E n \in 1..MaxOut : OutputSamples(n)
    \/ CallbackReturn

NextFrontend == MainThread \/ AudioThread

SpecFrontend == InitFrontend /\ [][NextFrontend]_vars

\* Scheduling: both threads keep running (the main loop never blocks outside a
\* lock, the device keeps calling back while it plays), and a thread blocked
\* in Mutex::lock gets the lock if it is free again and again
SpecFrontendFair ==
    /\ SpecFrontend
    /\ WF_vars(MainThread)
    /\ WF_vars(AudioThread)
    /\ SF_vars(ClearLock)
    /\ SF_vars(WriteSamplesLock)
    /\ SF_vars(OutputSamplesLock)

---------------------------------------------------------------------------
(* The register file of the APU before a device is attached                  *)
(* (SpecRegisters): every register address, every channel toggle.  Without   *)
(* a device run_until_cycle makes no samples and only moves the watermark.   *)

\* $4000-$400B, $4015 and the unlisted $4009, each written with 0xFD
RegisterWrites == {<<addr, 253>> : addr \in (16384..16395) \cup {16405}}
\* the cycle count passed to the APU: the first call flushes CycleUnit cycles,
\* the later ones none
RegisterCycles == {CycleUnit}
\* the channels toggled: one the code synthesizes, one it does not
RegisterToggled == {SQUARE1, DMC}

InitRegisters ==
    /\ apu = APU_new
    /\ buffer = <<>>
    /\ samples_per_second = 48000
    /\ out = <<>>
    /\ overflow_checks = FALSE
    /\ panicked = FALSE
    /\ last_call = Call("new", 0)
    /\ InitMainLoop
    /\ BusIdle

NextRegisters ==
    \/ \E c \in RegisterCycles : RunUntilCycle(c)
    \/ \E write \in RegisterWrites, c \in RegisterCycles :
          WriteRegister(write[1], write[2], c)
    \/ \E channel \in RegisterToggled : ToggleChannel(channel)

SpecRegisters == InitRegisters /\ [][NextRegisters]_vars

---------------------------------------------------------------------------
(* The period registers alone (SpecPeriods): any sequence of writes to the   *)
(* six period registers.                                                     *)

\* $4002, $4006, $400A: the low byte of a period
PeriodLowAddrs == {16386, 16390, 16394}
\* $4003, $4007, $400B: the high bits of a period
PeriodHighAddrs == {16387, 16391, 16395}
\* 0x47 and 0xFD as low bytes; 0x02, and 0xFD of which only bits 0-2 count, as
\* high bits
PeriodWrites ==
    {<<addr, value>> : addr \in PeriodLowAddrs, value \in {71, 253}}
        \cup {<<addr, value>> : addr \in PeriodHighAddrs, value \in {2, 253}}

NextPeriods ==
    \E write \in PeriodWrites, c \in RegisterCycles :
        WriteRegister(write[1], write[2], c)

SpecPeriods == InitRegisters /\ [][NextPeriods]_vars

---------------------------------------------------------------------------
(* Periods at the mute thresholds, with a device attached (SpecMute) *)

\* $4015 <- 0x07 enables both pulses and the triangle; periods 7 and 8 for the
\* pulses, 1 and 2 for the triangle
MuteWrites ==
    {<<16405, 7>>, <<16386, 7>>, <<16386, 8>>, <<16390, 7>>, <<16390, 8>>,
     <<16394, 1>>, <<16394, 2>>}
\* cycle counts passed to the APU
MuteCycles == {k * CycleUnit : k \in 0..MaxCycleUnits}

InitMute ==
    /\ apu = APU_new
    /\ buffer = <<>>
    /\ samples_per_second = 48000
    /\ out = <<>>
    /\ overflow_checks = TRUE
    /\ panicked = FALSE
    /\ last_call = Call("new", 0)
    /\ InitMainLoop
    /\ BusIdle

NextMute ==
    \/ AttachOutputDevice
    \/ \E c \in MuteCycles : RunUntilCycle(c)
    \/ \E write \in MuteWrites, c \in MuteCycles : WriteRegister(write[1], write[2], c)

SpecMute == InitMute /\ [][NextMute]_vars

---------------------------------------------------------------------------
(* The bus under any sequence of its operations (SpecBus).  NES::new is not  *)
(* part of the source; the fields are public, so SP and PC start anywhere    *)
(* in a set of representative values.  RAM starts zeroed.                    *)

\* bus accesses explored from power-on; the u64 cycle counter stays far from
\* its overflow
MaxBusCycles == 4
\* the longest run of push8 calls followed beyond MaxBusCycles
MaxPushRun == 256

\* 0x0000 and its mirror 0x0800, the first address past the RAM window (also
\* 0 mod 2048), and the last address of the bus
BusAddrs == {0, 2048, 8192, 65535}
Bytes == {18, 255}
Words == {4660}
StatusBytes == {255}
StackPointers == {0, 255}
ProgramCounters == {2047, 65535}

InitBus ==
    /\ apu = APU_new
    /\ buffer = <<>>
    /\ samples_per_second = 48000
    /\ out = <<>>
    /\ overflow_checks = FALSE
    /\ panicked = FALSE
    /\ last_call = Call("new", 0)
    /\ InitMainLoop
    /\ \E sp \in StackPointers, pc \in ProgramCounters :
          /\ bus = PowerOn(sp, pc)
          /\ bus_call = BusCall("new", NoValue, sp)
    /\ last_write = NoWrite
    /\ push_run = NoRun

\* the NES as an operation finds it: nothing returned or accessed yet
enter(n) == [n EXCEPT !.val = NoValue, !.log = <<>>]

\* the last write of a log, or the one before the log if it has none
LastWrite(log, before) ==
    LET writes == SelectSeq(log, LAMBDA access : access.kind = "write")
    IN  IF writes = <<>> THEN before ELSE SomeWrite(writes[Len(writes)])

\* a step of the bus: the operation op leaves the NES as after
BusStep(op, value, after) ==
    /\ bus' = after
    /\ bus_call' = BusCall(op, value, bus.SP)
    /\ last_write' = LastWrite(after.log, last_write)
    /\ push_run' = IF op = "push8"
                   THEN [n |-> push_run.n + 1,
                         sp |-> IF push_run.n = 0 THEN bus.SP ELSE push_run.sp,
                         value |-> IF push_run.n = 0 \/ push_run.value = value
                                   THEN value ELSE NoValue]
                   ELSE NoRun
    /\ UNCHANGED <<apu, buffer, out, build, frontend>>

\* there is room for k more bus accesses
CyclesLeft(k) == bus.cycles + k <= MaxBusCycles

Read8(addr) ==
    /\ CyclesLeft(1)
    /\ BusStep("read8", NoValue, read8(enter(bus), addr))

ReadAddr(addr) ==
    /\ CyclesLeft(2)
    /\ BusStep("read_addr", NoValue, read_addr(enter(bus), addr))

ReadCode ==
    /\ CyclesLeft(1)
    /\ BusStep("read_code", NoValue, read_code(enter(bus)))

ReadCodeAddr ==
    /\ CyclesLeft(2)
    /\ BusStep("read_code_addr", NoValue, read_code_addr(enter(bus)))

Write8(addr, val) ==
    /\ CyclesLeft(1)
    /\ BusStep("write8", val, write8(enter(bus), addr, val))

ResetState == BusStep("reset_state", NoValue, reset_state(enter(bus)))

SetStatusRegister(value) ==
    BusStep("set_status_register", value, set_status_register(enter(bus), value))

GetStatusRegister ==
    BusStep("get_status_register", NoValue, get_status_register(enter(bus)))

\* push8 within the explored cycles, or one more of an unbroken run of
\* push8 calls of one value
Push8(value) ==
    /\ \/ CyclesLeft(1)
       \/ /\ push_run.n = bus.cycles
          /\ push_run.n < MaxPushRun
          /\ push_run.value = value
    /\ BusStep("push8", value, push8(enter(bus), value))

Pop8 ==
    /\ CyclesLeft(1)
    /\ BusStep("pop8", NoValue, pop8(enter(bus)))

Push16(value) ==
    /\ CyclesLeft(2)
    /\ BusStep("push16", value, push16(enter(bus), value))

Pop16 ==
    /\ CyclesLeft(2)
    /\ BusStep("pop16", NoValue, pop16(enter(bus)))

NextBus ==
    \/ \E addr \in BusAddrs : Read8(addr)
    \/ \E addr \in BusAddrs : ReadAddr(addr)
    \/ ReadCode
    \/ ReadCodeAddr
    \/ \E addr \in BusAddrs, val \in Bytes : Write8(addr, val)
    \/ ResetState
    \/ \E value \in StatusBytes : SetStatusRegister(value)
    \/ GetStatusRegister
    \/ \E value \in Bytes : Push8(value)
    \/ Pop8
    \/ \E value \in Words : Push16(value)
    \/ Pop16

SpecBus == InitBus /\ [][NextBus]_vars

---------------------------------------------------------------------------
(* The stack alone, from every value of SP (SpecStack) *)

\* 0x1234, and words whose high and low bytes are 0x00 and 0xFF
StackWords == {4660, 255, 65280}

InitStack ==
    /\ apu = APU_new
    /\ buffer = <<>>
    /\ samples_per_second = 48000
    /\ out = <<>>
    /\ overflow_checks = FALSE
    /\ panicked = FALSE
    /\ last_call = Call("new", 0)
    /\ InitMainLoop
    /\ \E sp \in 0..(U8 - 1) :
          /\ bus = PowerOn(sp, 0)
          /\ bus_call = BusCall("new", NoValue, sp)
    /\ last_write = NoWrite
    /\ push_run = NoRun

NextStack ==
    \/ \E value \in Bytes : Push8(value)
    \/ Pop8
    \/ \E value \in StackWords : Push16(value)
    \/ Pop16

SpecStack == InitStack /\ [][NextStack]_vars

---------------------------------------------------------------------------
(* The status register codec, over every byte (SpecStatus) *)

InitStatus ==
    /\ apu = APU_new
    /\ buffer = <<>>
    /\ samples_per_second = 48000
    /\ out = <<>>
    /\ overflow_checks = FALSE
    /\ panicked = FALSE
    /\ last_call = Call("new", 0)
    /\ InitMainLoop
    /\ BusIdle

NextStatus ==
    \/ \E value \in 0..(U8 - 1) : SetStatusRegister(value)
    \/ GetStatusRegister

SpecStatus == InitStatus /\ [][NextStatus]_vars

---------------------------------------------------------------------------
(* Properties of the APU under any sequence of API calls (Spec) *)

\* the samples a step appended to the queue
Appended == SubSeq(buffer', Len(buffer) + 1, Len(buffer'))

\* the APU with its per-channel sample vectors empty, as APU::new makes them
fresh_vectors(a) ==
    [a EXCEPT !.sq1_samples = <<>>, !.sq2_samples = <<>>, !.tri_samples = <<>>,
              !.mixed_samples = <<>>]

\* the samples of the window [watermark, c) computed from the duty, period and
\* masks that a holds, and from nothing else
computed_from_registers(a, c) ==
    flush_written(synthesize(fresh_vectors(a), c, flush_samples(a, c)))

\* C2: in every run_until_cycle call a pulse channel that is not in
\* host_enabled_channels AND guest_enabled_channels contributes 0.0 to every
\* mixed sample the call appends (a pulse sample is +volume or -volume, never 0.0)
C2_DisabledChannelIsSilent ==
    [][\A c \in Cycles :
          (RunUntilCycle(c) /\ ~panicked') =>
              \A i \in 1..Len(Appended) :
                  /\ ~channel_enabled(apu, SQUARE1) => Appended[i].pulse1 = Zero
                  /\ ~channel_enabled(apu, SQUARE2) => Appended[i].pulse2 = Zero]_vars

\* C3: write_register(addr, value, cpu_cycle) appends only samples computed from
\* the duty, period and masks held before the call, and returns with the
\* watermark at cpu_cycle, for every addr
C3_FlushUsesOldRegisters ==
    [][\A addr \in Addrs, value \in Values, c \in Cycles :
          (WriteRegister(addr, value, c) /\ ~panicked') =>
              /\ Appended = computed_from_registers(apu, c)
              /\ apu'.last_cpu_cycles = c]_vars

\* C4: the watermark last_cpu_cycles never decreases, whatever call is made with
\* whatever cycle argument
C4_WatermarkNeverDecreases ==
    [][apu'.last_cpu_cycles >= apu.last_cpu_cycles]_vars

\* C8: run_until_cycle(c) made right after run_until_cycle(c) appends no sample
\* and leaves the watermark, both masks and the oscillator parameters unchanged
C8_RunUntilCycleIdempotent ==
    [][\A c \in Cycles :
          (last_call.op = "run_until_cycle" /\ last_call.cycle = c /\ RunUntilCycle(c)) =>
              /\ ~panicked'
              /\ buffer' = buffer
              /\ apu'.last_cpu_cycles = apu.last_cpu_cycles
              /\ apu'.last_cpu_cycles = c
              /\ apu'.host_enabled_channels = apu.host_enabled_channels
              /\ apu'.guest_enabled_channels = apu.guest_enabled_channels
              /\ apu'.square_wave1 = apu.square_wave1
              /\ apu'.square_wave2 = apu.square_wave2
              /\ apu'.triangle_wave = apu.triangle_wave]_vars

\* C8's case: run_until_cycle(c) has just been repeated on an APU whose first
\* run_until_cycle(c) did append samples
C8_RepeatedAfterSamples ==
    /\ last_call.op = "run_until_cycle" /\ last_call.again
    /\ last_call.cycle > 0 /\ buffer # <<>> /\ apu.output_buffer.some

\* C9: with a device of rate r attached, run_until_cycle(end) at watermark
\* w <= end appends exactly floor(r * (end - w) / CPU_FREQ) samples
C9_FloorOfRateTimesElapsed ==
    [][\A c \in Cycles :
          (RunUntilCycle(c) /\ apu.output_buffer.some /\ c >= apu.last_cpu_cycles) =>
              Len(Appended) =
                  (apu.output_buffer.samples_per_second * (c - apu.last_cpu_cycles))
                      \div CPU_FREQ]_vars

\* C10: without an output device, run_until_cycle(end) and
\* write_register(_, _, end) raise no error, append nothing and leave the
\* watermark at end
C10_DetachedFlushOnlyMovesWatermark ==
    [][\A c \in Cycles :
          (~apu.output_buffer.some /\
              (RunUntilCycle(c) \/ \E addr \in Addrs, value \in Values : WriteRegister(addr, value, c))) =>
              /\ ~panicked'
              /\ buffer' = buffer
              /\ apu'.last_cpu_cycles = c]_vars

---------------------------------------------------------------------------
(* Properties of the frontend (SpecFrontend, SpecFrontendFair) *)

\* C1: with producer and consumer interleaved on the shared queue and no clear
\* in between, the queued samples delivered so far are a prefix of the samples
\* written, in order, and what is still queued is exactly the rest
C1_DeliveredIsPrefixOfWritten ==
    /\ Len(delivered) <= Len(written)
    /\ delivered = SubSeq(written, 1, Len(delivered))
    /\ buffer = SubSeq(written, Len(delivered) + 1, Len(written))

\* C1's case: distinct samples written by several flushes, some delivered, others
\* still queued while the callback is in output_samples again
C1_InterleavedWritesAndReads ==
    /\ Len(delivered) >= 1
    /\ Len(buffer) >= 1
    /\ delivered[1] # buffer[1]
    /\ audio_pc = "output_samples"

\* C5: output_samples on a slice of n entries with q samples queued runs as
\* soon as it has the lock, whatever q is; it fills the first min(q, n)
\* entries with the oldest queued samples in order and the rest with 0.0, and
\* leaves the max(q - n, 0) newest samples queued in order
C5_OutputSamplesPadsWithZero ==
    /\ [](audio_pc = "output_samples" => ENABLED (\E n \in 1..MaxOut : OutputSamples(n)))
    /\ [][\A n \in 1..MaxOut :
            OutputSamples(n) =>
                /\ Len(out') = n
                /\ \A i \in 1..n :
                      out'[i] = IF i <= Len(buffer) THEN buffer[i] ELSE Silence
                /\ Len(buffer') = IF Len(buffer) > n THEN Len(buffer) - n ELSE 0
                /\ \A j \in 1..Len(buffer') : buffer'[j] = buffer[n + j]]_vars

\* C5's case: a callback got fewer queued samples than it asked for
C5_PaddedSlice ==
    /\ audio_pc = "callback return"
    /\ Len(out) >= 2
    /\ out[1] # Silence
    /\ out[Len(out)] = Silence
    /\ buffer = <<>>

\* C6: on every session load the device is not playing from the clear of the
\* Sample Buffer until the buffer is attached to the new APU
C6_NoPlaybackBeforeAttach ==
    main_pc \in {"clear.lock", "clear", "attach_output_device"} => device_status # "playing"

\* C7: a thread that requests the queue lock eventually gets it, and the
\* thread holding the queue lock is in the body of a SampleBuffer method,
\* where it waits for nothing
C7_QueueLockEventuallyAcquired ==
    /\ (main_pc = "clear.lock") ~> (main_pc = "clear")
    /\ (main_pc = "write_samples.lock") ~> (main_pc = "write_samples")
    /\ (audio_pc = "output_samples.lock") ~> (audio_pc = "output_samples")
    /\ [](queue_lock = "main" => main_pc \in {"clear", "write_samples"})
    /\ [](queue_lock = "audio" => audio_pc = "output_samples")

\* C7's case: the audio thread requests the queue lock while the main thread
\* holds it
C7_Contention ==
    /\ audio_pc = "output_samples.lock"
    /\ queue_lock = "main"
    /\ device_lock = "audio"

---------------------------------------------------------------------------
(* Properties of the bus (SpecBus) *)

\* a and a2 name the same byte of the 2048-byte array
same_cell(a, a2) == a % RAM_SIZE = a2 % RAM_SIZE

\* C11, within the RAM window: for addresses a and a2 below 0x2000 with
\* a mod 2048 = a2 mod 2048, read8(a2) made after write8(a, v) with no write in
\* between returns v
C11_MirroredReadReturnsWritten ==
    [][\A a2 \in BusAddrs :
          (/\ Read8(a2)
           /\ last_write.some
           /\ last_write.addr < RAM_WINDOW
           /\ a2 < RAM_WINDOW
           /\ same_cell(last_write.addr, a2))
          => bus'.val = last_write.val]_vars

\* C11 as stated, for all 16-bit addresses: read8(a2) made after write8(a, v)
\* with a mod 2048 = a2 mod 2048 and no write in between returns v
C11_AnyAddressReadReturnsWritten ==
    [][\A a2 \in BusAddrs :
          (/\ Read8(a2)
           /\ last_write.some
           /\ same_cell(last_write.addr, a2))
          => bus'.val = last_write.val]_vars

\* C11's case: a byte written at one address has been read back through
\* another address of the RAM window
C11_ReadThroughMirror ==
    /\ bus_call.op = "read8"
    /\ last_write.some
    /\ bus.log[1].addr # last_write.addr
    /\ bus.log[1].addr < RAM_WINDOW
    /\ last_write.addr < RAM_WINDOW
    /\ same_cell(last_write.addr, bus.log[1].addr)
    /\ bus.val = last_write.val
    /\ bus.val # 0

\* the registers and RAM of a NES
machine(n) == <<n.A, n.X, n.Y, n.SP, n.PC, n.SR, n.ram>>

\* C12: an access at addr >= 0x2000 completes; read8 returns 0, write8 stores
\* nothing; RAM, A, X, Y, SP, PC and the flags are unchanged and the cycle
\* counter has advanced by 1
C12_UnmappedAccessIsSoft ==
    [][\A addr \in BusAddrs, val \in Bytes :
          (addr >= RAM_WINDOW /\ (Read8(addr) \/ Write8(addr, val)))
          => /\ machine(bus') = machine(bus)
             /\ bus'.cycles = bus.cycles + 1
             /\ Read8(addr) => bus'.val = 0]_vars

\* C12's case: with a nonzero byte in the RAM cell that 0x2000 would mirror to,
\* a read8 outside the window has returned 0 and a cycle was spent
C12_UnmappedReadOverWrittenRam ==
    /\ bus_call.op = "read8"
    /\ bus.log[1].addr >= RAM_WINDOW
    /\ ram_load(bus.ram, bus.log[1].addr % RAM_SIZE) # 0
    /\ bus.val = 0
    /\ bus.cycles >= 2

\* the cycles C13 gives each operation
cycles_of(op) ==
    CASE op \in {"read8", "write8", "read_code", "push8", "pop8"} -> 1
      [] op \in {"read_addr", "read_code_addr", "push16", "pop16"} -> 2
      [] op \in {"reset_state", "set_status_register", "get_status_register"} -> 0

\* C13: over any sequence of operations the cycle counter never decreases and
\* advances by one per 8-bit bus access: by 1 in read8, write8, read_code, push8
\* and pop8, by 2 in read_addr, read_code_addr, push16 and pop16, by 0 in
\* reset_state, set_status_register and get_status_register
C13_CyclesCountBusAccesses ==
    [][/\ bus'.cycles >= bus.cycles
       /\ bus'.cycles = bus.cycles + Len(bus'.log)
       /\ bus'.cycles = bus.cycles + cycles_of(bus_call'.op)]_vars

\* C13's case: one-access, two-access and no-access operations in one run
C13_MixedOperations ==
    /\ bus_call.op = "get_status_register"
    /\ bus.cycles = 3
    /\ bus.PC \notin ProgramCounters
    /\ last_write.some

\* the memory area of the stack, 0x0100 - 0x01FF
StackArea == STACK_BASE..(STACK_BASE + U8 - 1)

\* C14: pop16 made right after push16(v) returns v and leaves SP as it was
\* before the push, for every SP including those that wrap between 0x00 and
\* 0xFF on the way; every access of a stack operation falls in 0x0100..0x01FF;
\* after 256 push8 calls in a row SP is back at its starting value
C14_StackRoundTrip ==
    [][/\ (Pop16 /\ bus_call.op = "push16")
          => (bus'.val = bus_call.value /\ bus'.SP = bus_call.sp)
       /\ (Push8(bus_call'.value) \/ Pop8 \/ Push16(bus_call'.value) \/ Pop16)
          => \A i \in 1..Len(bus'.log) : bus'.log[i].addr \in StackArea
       /\ push_run'.n = U8 => bus'.SP = push_run'.sp]_vars

\* C14's case: push16(0x1234) at SP = 0x00, where SP wraps between the two
\* bytes, has been popped again: the pop read 0x01FF, then 0x0100
C14_RoundTripAcrossWrap ==
    /\ bus_call.op = "pop16"
    /\ bus.val = 4660
    /\ bus.SP = 0
    /\ bus.log[1].addr = STACK_BASE + U8 - 1
    /\ bus.log[2].addr = STACK_BASE
    /\ bus.log[1].val # bus.log[2].val

---------------------------------------------------------------------------
(* Properties of the status register codec (SpecStatus) *)

\* C15: for every byte b, get_status_register right after
\* set_status_register(b), that is to_byte(from_byte(b)), gives
\* (b AND 0xCF) OR 0x20: the six flags are kept, bit 4 is dropped, bit 5 is set
C15_StatusRoundTrip ==
    [][(GetStatusRegister /\ bus_call.op = "set_status_register")
       => /\ bus'.val = BitOr(BitAnd(bus_call.value, 207), 32)
          /\ bus'.val = to_byte(from_byte(bus_call.value))]_vars

\* C15's case: the flags set from a byte have been read back as 0xEF, all six
\* flags and bit 5 set, bit 4 clear
C15_AllFlagsReadBack ==
    /\ bus_call.op = "get_status_register"
    /\ bus.val = 239
    /\ bus.SR = from_byte(255)


---------------------------------------------------------------------------
(* Properties of the masks and the register file (Spec, SpecRegisters) *)

\* C16: toggle_channel(channel) flips the bit of channel in the host mask and
\* no other host bit; the guest mask, the watermark, the oscillators and
\* everything else the APU holds stay as they were, and so does the queue of
\* the Sample Buffer
C16_ToggleFlipsOneHostBit ==
    [][\A channel \in Channels :
          (last_call'.op = "toggle_channel" /\ ToggleChannel(channel))
          => /\ contains(apu'.host_enabled_channels, channel)
                  # contains(apu.host_enabled_channels, channel)
             /\ \A other \in Channels \ {channel} :
                   contains(apu'.host_enabled_channels, other)
                       = contains(apu.host_enabled_channels, other)
             /\ apu'.host_enabled_channels \in 0..AudioChannels_all
             /\ [apu' EXCEPT !.host_enabled_channels = apu.host_enabled_channels] = apu
             /\ buffer' = buffer]_vars

\* C16's case: a channel has been toggled off while samples were queued, the
\* watermark had moved and a period had been written
C16_ToggledWithQueuedSamples ==
    /\ last_call.op = "toggle_channel"
    /\ ~contains(apu.host_enabled_channels, SQUARE1)
    /\ Len(buffer) >= 1
    /\ apu.last_cpu_cycles > 0
    /\ apu.square_wave1.period # 0
    /\ apu.guest_enabled_channels # AudioChannels_empty


\* both masks of the APU
masks(a) == <<a.guest_enabled_channels, a.host_enabled_channels>>

\* C17: over any sequence of APU operations the guest mask changes only in a
\* write_register to $4015, which makes it the low 5 bits of the value written;
\* the host mask changes only in toggle_channel; run_until_cycle and a
\* write_register to any other address leave both masks as they were
C17_MasksChangeOnlyExplicitly ==
    [][/\ apu'.guest_enabled_channels # apu.guest_enabled_channels
          => \E value \in Values, c \in Cycles : WriteRegister(16405, value, c)
       /\ apu'.host_enabled_channels # apu.host_enabled_channels
          => \E channel \in Channels : ToggleChannel(channel)
       /\ \A c \in Cycles :
             (/\ last_call'.op = "write_register"
              /\ last_call'.cycle = c
              /\ ~panicked')
             => LET flushed == run_until_cycle(apu, buffer, c)
                IN  \A addr \in Addrs, value \in Values :
                       (/\ apu' = dispatch_register(flushed.apu, addr, value)
                        /\ buffer' = flushed.queue)
                       => IF addr = 16405
                          THEN /\ apu'.guest_enabled_channels = value % 32
                               /\ apu'.host_enabled_channels = apu.host_enabled_channels
                          ELSE masks(apu') = masks(apu)
       /\ last_call'.op = "run_until_cycle" => masks(apu') = masks(apu)]_vars

\* C17's case: $4015 was written with 0x47, whose low 5 bits are 0x07, in a
\* session whose host mask had been changed by a toggle, and samples were
\* flushed since
C17_GuestMaskFromLowBits ==
    /\ apu.guest_enabled_channels = 7
    /\ apu.host_enabled_channels # AudioChannels_all
    /\ last_call.op = "run_until_cycle"
    /\ Len(buffer) >= 1


\* each oscillator with the addresses of its period registers, low then high
PeriodRegisters ==
    {<<"square_wave1", 16386, 16387>>, <<"square_wave2", 16390, 16391>>,
     <<"triangle_wave", 16394, 16395>>}

\* the values SpecPeriods writes, and the bytes at the edges of the 3 high bits
PeriodBytes == {write[2] : write \in PeriodWrites} \cup {0, 7, 8, 255}

\* the step is a write_register(addr, value, _) that returned, given the APU
\* and queue after its flush
wrote(flushed, addr, value) ==
    /\ apu' = dispatch_register(flushed.apu, addr, value)
    /\ buffer' = flushed.queue

\* C18: every period stays in 0..2047; a write of L to $4002/$4006/$400A replaces
\* the low 8 bits of the period and keeps the rest, a write of H to
\* $4003/$4007/$400B makes the high 3 bits H AND 7 and keeps the low 8; written
\* in either order L and H give the period (H AND 7) * 256 + L
C18_PeriodFromTwoWrites ==
    /\ [](\A r \in PeriodRegisters :
             /\ apu[r[1]].period \in 0..2047
             /\ \A L \in PeriodBytes, H \in PeriodBytes :
                   /\ dispatch_register(dispatch_register(apu, r[2], L),
                                        r[3], H)[r[1]].period = (H % 8) * 256 + L
                   /\ dispatch_register(dispatch_register(apu, r[3], H),
                                        r[2], L)[r[1]].period = (H % 8) * 256 + L)
    /\ [][\A c \in RegisterCycles :
             (/\ last_call'.op = "write_register"
              /\ last_call'.cycle = c
              /\ ~panicked')
             => LET flushed == run_until_cycle(apu, buffer, c)
                IN  \A write \in PeriodWrites :
                       wrote(flushed, write[1], write[2])
                       => \A r \in PeriodRegisters :
                             /\ write[1] = r[2]
                                => apu'[r[1]].period
                                       = (apu[r[1]].period \div 256) * 256 + write[2]
                             /\ write[1] = r[3]
                                => apu'[r[1]].period
                                       = (write[2] % 8) * 256 + (apu[r[1]].period % 256)]_vars

\* C18's case: pulse 1 holds 0x247 from the writes 0x47 and 0x02; pulse 2 and
\* the triangle hold 0x5FD from two writes of 0xFD, of which the high write
\* kept only 0xFD AND 7 = 5
C18_PeriodsAssembled ==
    /\ apu.square_wave1.period = 583
    /\ apu.square_wave2.period = 1533
    /\ apu.triangle_wave.period = 1533
    /\ last_call.op = "write_register"


\* the duty, in eighths, that the top 2 bits of a value select
duty_of(value) == <<1, 2, 4, 6>>[(value \div 64) + 1]

\* the parameters of the oscillators, and the masks
parameters(a) ==
    [duty1 |-> a.square_wave1.duty_cycle, period1 |-> a.square_wave1.period,
     volume1 |-> a.square_wave1.volume,
     duty2 |-> a.square_wave2.duty_cycle, period2 |-> a.square_wave2.period,
     volume2 |-> a.square_wave2.volume,
     period3 |-> a.triangle_wave.period,
     guest |-> a.guest_enabled_channels, host |-> a.host_enabled_channels]

low_written(period, value) == (period \div 256) * 256 + value
high_written(period, value) == (value % 8) * 256 + (period % 256)

\* the parameters C19 allows after a write of value to addr
selected(p, addr, value) ==
    CASE addr = 16384 -> [p EXCEPT !.duty1 = duty_of(value)]
      [] addr = 16386 -> [p EXCEPT !.period1 = low_written(@, value)]
      [] addr = 16387 -> [p EXCEPT !.period1 = high_written(@, value)]
      [] addr = 16388 -> [p EXCEPT !.duty2 = duty_of(value)]
      [] addr = 16390 -> [p EXCEPT !.period2 = low_written(@, value)]
      [] addr = 16391 -> [p EXCEPT !.period2 = high_written(@, value)]
      [] addr = 16394 -> [p EXCEPT !.period3 = low_written(@, value)]
      [] addr = 16395 -> [p EXCEPT !.period3 = high_written(@, value)]
      [] addr = 16405 -> [p EXCEPT !.guest = value % 32]
      [] OTHER -> p

\* C19: a register write changes only the parameter its address selects:
\* $4000/$4002/$4003 the duty (from the top 2 bits), period low byte and period
\* high bits of pulse 1, $4004/$4006/$4007 those of pulse 2, $400A/$400B the
\* triangle period; a write to $4001, $4005, $4008 or an unlisted address
\* changes no oscillator parameter and no mask; run_until_cycle and
\* toggle_channel change no period and no duty
C19_WriteChangesSelectedParameter ==
    [][/\ \A c \in RegisterCycles :
             (/\ last_call'.op = "write_register"
              /\ last_call'.cycle = c
              /\ ~panicked')
             => LET flushed == run_until_cycle(apu, buffer, c)
                IN  \A write \in RegisterWrites :
                       wrote(flushed, write[1], write[2])
                       => parameters(apu') = selected(parameters(apu), write[1], write[2])
       /\ last_call'.op = "run_until_cycle"
          => parameters(apu') = parameters(apu)
       /\ last_call'.op = "toggle_channel"
          => [parameters(apu') EXCEPT !.host = apu.host_enabled_channels]
                 = parameters(apu)]_vars

\* C19's case: writes of 0xFD have set the duty of pulse 1 and not its period,
\* the low byte of pulse 2 and not its duty, the high bits of the triangle and
\* the guest mask; a register write came last
C19_SelectedParametersOnly ==
    /\ parameters(apu) =
           [parameters(APU_new) EXCEPT !.duty1 = 6, !.period2 = 253,
                                       !.period3 = 1280, !.guest = 29]
    /\ last_call.op = "write_register"
    /\ apu.last_cpu_cycles > 0


\* C20: a pulse oscillator that both masks enable and whose period is below 8,
\* and a triangle oscillator that both masks enable and whose period is below
\* 2, put exactly 0 into every sample of every window flushed; so from
\* power-on, where the periods are 0, an enabled channel is silent until writes
\* bring its period to the threshold
C20_MutedBelowThreshold ==
    [][\A i \in 1..Len(Appended) :
          /\ (channel_enabled(apu, SQUARE1) /\ apu.square_wave1.period < 8)
             => Appended[i].pulse1 = Zero
          /\ (channel_enabled(apu, SQUARE2) /\ apu.square_wave2.period < 8)
             => Appended[i].pulse2 = Zero
          /\ (channel_enabled(apu, TRIANGLE) /\ apu.triangle_wave.period < 2)
             => Appended[i].triangle = Zero]_vars

\* C20's case: with all three channels enabled, a window was flushed while
\* pulse 1 had period 7, pulse 2 period 8 and the triangle period 1: only pulse
\* 2 sounds in its sample; an earlier sample holds pulse 1 at period 8
C20_SilentAtPeriodSeven ==
    /\ last_call.op = "run_until_cycle"
    /\ apu.guest_enabled_channels = 7
    /\ apu.square_wave1.period = 7
    /\ apu.square_wave2.period = 8
    /\ apu.triangle_wave.period = 1
    /\ Len(buffer) = 2
    /\ buffer[1].pulse1 # Zero
    /\ buffer[2].pulse1 = Zero
    /\ buffer[2].pulse2 # Zero
    /\ buffer[2].triangle = Zero


---------------------------------------------------------------------------
(* The samples of a sequence of flushes, counted from power-on (SpecTotals) *)

\* writes made with the flushes: $4015 <- 0x01 enables pulse 1
TotalWrites == {<<16405, 1>>}

\* APU::new, with the flushes counted from here on
InitTotals ==
    /\ apu = APU_new
    /\ buffer = <<>>
    /\ samples_per_second \in Rates
    /\ out = <<>>
    /\ overflow_checks \in BOOLEAN
    /\ panicked = FALSE
    /\ last_call = [Call("new", 0) EXCEPT !.flushes = 0]
    /\ InitMainLoop
    /\ BusIdle

NextTotals ==
    \/ AttachOutputDevice
    \/ \E c \in Cycles : RunUntilCycle(c)
    \/ \E write \in TotalWrites, c \in Cycles : WriteRegister(write[1], write[2], c)

SpecTotals == InitTotals /\ [][NextTotals]_vars

\* floor(r * W / 1789773), in exact integer arithmetic
exact_samples(rate, cycles) == (rate * cycles) \div CPU_FREQ

\* a device attached from cycle 0, and k >= 1 flushes with non-decreasing
\* targets made since; nothing takes samples out of the queue here, so that
\* Len(buffer) is the number of samples appended
flushes_counted ==
    /\ ~panicked
    /\ apu.output_buffer.some
    /\ last_call.flushes # NotCounted
    /\ last_call.flushes >= 1

\* C21: with a device attached at rate r from cycle 0 and non-decreasing flush
\* targets, the samples appended by k flushes (run_until_cycle or
\* write_register) ending at watermark W number at most floor(r * W / 1789773)
\* and fall short of it by fewer than k; and a flush whose elapsed cycles give
\* less than one sample appends nothing while still advancing the watermark
C21_TotalWithinFlushCount ==
    /\ [](flushes_counted =>
            /\ Len(buffer) <= exact_samples(rate_of(apu), apu.last_cpu_cycles)
            /\ exact_samples(rate_of(apu), apu.last_cpu_cycles) - Len(buffer)
                   < last_call.flushes)
    /\ [][(/\ flushes_counted'
           /\ last_call'.op \in {"run_until_cycle", "write_register"}
           /\ rate_of(apu) * (last_call'.cycle - apu.last_cpu_cycles) < CPU_FREQ)
          => (buffer' = buffer /\ apu'.last_cpu_cycles = last_call'.cycle)]_vars

---------------------------------------------------------------------------
(* Properties of SpecFrontend: a load that fails *)

\* the steps of a load that fails: load_nes_system returns Err, the error dialog
\* is shown, and whatever the audio thread does until the dialog returns
load_failing == main_pc = "display_error_dialog" \/ main_pc' = "display_error_dialog"

\* C22: when loading a ROM fails the frontend keeps the current session and does
\* not touch audio: from the Err to the return of the error dialog the NES, if
\* any, stays the active session with its APU as it was, the samples written to
\* the Sample Buffer since its last clear are all still written (no clear), no
\* APU is attached or detached, and the device's playback state is unchanged;
\* and the buffer is cleared, and an APU attached, only in a load that succeeded
C22_FailedLoadKeepsSessionAndAudio ==
    [][/\ load_failing =>
            /\ nes' = nes
            /\ apu' = apu
            /\ new_nes' = new_nes
            /\ written' = written
            /\ Len(buffer') <= Len(buffer)
            /\ device_status' = device_status
            /\ paused' = paused
       /\ (written # <<>> /\ written' = <<>>) => new_nes.some
       /\ (\/ apu'.output_buffer # apu.output_buffer
           \/ new_nes'.apu.output_buffer # new_nes.apu.output_buffer) => new_nes.some]_vars

\* C22's case: the error dialog is up while a session runs with the device
\* playing, samples written since the last clear and some of them still queued
C22_ErrorDialogOverRunningSession ==
    /\ main_pc = "display_error_dialog"
    /\ nes = "Some"
    /\ apu.output_buffer.some
    /\ device_status = "playing"
    /\ written # <<>>
    /\ buffer # <<>>


=============================================================================
